---- MODULE Spec2Model ----
(***************************************************************************)
(* Model of reiseplaner.py: the trip planner's pure functions and the two  *)
(* HTTP operations that call them.                                         *)
(*                                                                         *)
(* A Python str is a sequence of fragments whose concatenation is the      *)
(* string.  Text that comes from a caller is one fragment per character,   *)
(* so strip(), lower(), title() and the substring test `in` work on        *)
(* characters; a literal of the source is kept as one fragment and never   *)
(* contains a line break.  The combining caron (U+030C), which the parser  *)
(* does not read inside a string, is written "U+030C".                     *)
(***************************************************************************)
EXTENDS Integers, Sequences, FiniteSets, TLC

VARIABLES
    fn,             \* the operation that ran last, "idle" between operations
    req,            \* the body of the HTTP request (TripRequest before validation)
    city, days, interests, weather,   \* the arguments of the function that ran
    text,           \* the argument of _normalize
    weather_class,  \* what _classify_weather returned
    pool,           \* what _build_activity_pool returned
    lines,          \* plan_trip's list `lines` when it returns
    result,         \* the str returned by _normalize, _interest_hint, plan_trip
    http,           \* the HTTP status of the response, 0 when there is none
    response        \* the body of the HTTP response

vars == <<fn, req, city, days, interests, weather, text,
          weather_class, pool, lines, result, http, response>>

(* ---------------------------------------------------------------- bounds *)

\* Longest caller text fed to _normalize and _build_activity_pool.
MaxTextLen == 4
\* Most fragments concatenated into a weather text.
MaxWeatherFrags == 3
\* Most fragments concatenated into an interests text.
MaxInterestFrags == 2
\* How far below 1 and above 21 the integer `days` inputs reach.
DaysSlack == 3

(* ------------------------------------------------------ characters (str) *)

Lowers == <<"a","b","c","d","e","f","g","h","i","j","k","l","m","n","o","p",
            "q","r","s","t","u","v","w","x","y","z","ä","ö","ü">>
Uppers == <<"A","B","C","D","E","F","G","H","I","J","K","L","M","N","O","P",
            "Q","R","S","T","U","V","W","X","Y","Z","Ä","Ö","Ü">>

Range(s) == {s[i] : i \in DOMAIN s}

LowerSet == Range(Lowers)
UpperSet == Range(Uppers)

IndexIn(c, s) == CHOOSE i \in DOMAIN s : s[i] = c

\* str.isspace() of one character.
IsSpace(c) == c \in {" ", "\n", "\t"}

\* Whether the character is cased (has a case mapping): letters, and the
\* lowercase j with caron (U+01F0); a combining mark is not.
IsCased(c) == c \in LowerSet \cup UpperSet \cup {"ǰ"}

\* The lowercase mapping of one character.
ToLowerFull(c) == IF c \in UpperSet THEN <<Lowers[IndexIn(c, Uppers)]>> ELSE <<c>>

\* The titlecase mapping of one character; U+01F0 has no single titlecase
\* character and maps to "J" followed by the combining caron.
ToTitleFull(c) ==
    IF c \in LowerSet THEN <<Uppers[IndexIn(c, Lowers)]>>
    ELSE IF c = "ǰ" THEN <<"J", "U+030C">>
    ELSE <<c>>

RECURSIVE lower(_)
\* str.lower()
lower(s) == IF s = <<>> THEN <<>> ELSE ToLowerFull(Head(s)) \o lower(Tail(s))

RECURSIVE lstrip(_)
lstrip(s) == IF s # <<>> /\ IsSpace(Head(s)) THEN lstrip(Tail(s)) ELSE s

RECURSIVE rstrip(_)
rstrip(s) ==
    IF s # <<>> /\ IsSpace(s[Len(s)]) THEN rstrip(SubSeq(s, 1, Len(s) - 1)) ELSE s

\* str.strip()
strip(s) == rstrip(lstrip(s))

RECURSIVE TitleFrom(_, _)
\* The loop of str.title(): a character after a cased one is lowercased,
\* any other is titlecased.
TitleFrom(s, previous_is_cased) ==
    IF s = <<>> THEN <<>>
    ELSE LET c == Head(s)
         IN  (IF previous_is_cased THEN ToLowerFull(c) ELSE ToTitleFull(c))
                 \o TitleFrom(Tail(s), IsCased(c))

\* str.title()
title(s) == TitleFrom(s, FALSE)

\* wort in w
Contains(wort, w) ==
    \E i \in 0..(Len(w) - Len(wort)) : SubSeq(w, i + 1, i + Len(wort)) = wort

\* any(wort in w for wort in worte)
AnyIn(worte, w) == \E k \in DOMAIN worte : Contains(worte[k], w)

RECURSIVE Join(_, _)
\* sep.join(parts), the parts joined half by half.
Join(parts, sep) ==
    IF parts = <<>> THEN <<>>
    ELSE IF Len(parts) = 1 THEN parts[1]
    ELSE LET half == Len(parts) \div 2
         IN  Join(SubSeq(parts, 1, half), sep) \o sep
                 \o Join(SubSeq(parts, half + 1, Len(parts)), sep)

(* ------------------------------------------------------------ _normalize *)

_normalize(t) == title(strip(t))

(* ----------------------------------------------------- _classify_weather *)

BadWeatherWords == <<<<"r","e","g","e","n">>,
    <<"s","c","h","l","e","c","h","t">>,
    <<"b","e","w","ö","l","k","t">>>>

GoodWeatherWords == <<<<"s","o","n","n","i","g">>,
    <<"w","a","r","m">>,
    <<"h","e","i","s","s">>>>

\* Mutant: the good keywords are tested before the bad ones.
_classify_weather_GoodFirst(w_in) ==
    IF w_in = <<>> THEN "gemischt"
    ELSE LET w == lower(w_in)
         IN  IF AnyIn(GoodWeatherWords, w) THEN "gut"
             ELSE IF AnyIn(BadWeatherWords, w) THEN "schlecht"
             ELSE "gemischt"

\* Mutant: a text with no keyword gets a class the pool does not define.
_classify_weather_Unknown(w_in) ==
    IF w_in = <<>> THEN "gemischt"
    ELSE LET w == lower(w_in)
         IN  IF AnyIn(BadWeatherWords, w) THEN "schlecht"
             ELSE IF AnyIn(GoodWeatherWords, w) THEN "gut"
             ELSE "unbekannt"

_classify_weather(w_in) ==
    IF w_in = <<>> THEN "gemischt"
    ELSE LET w == lower(w_in)
         IN  IF AnyIn(BadWeatherWords, w) THEN "schlecht"
             ELSE IF AnyIn(GoodWeatherWords, w) THEN "gut"
             ELSE "gemischt"

(* -------------------------------------------------- _build_activity_pool *)

_build_activity_pool(c) ==
    LET city_name == _normalize(c)
    IN  [gut |->
           [morgen |-> <<
              <<"Spaziergang durch die Altstadt von ">> \o city_name,
              <<"Besuch eines lokalen Marktes in ">> \o city_name,
              <<"Frühstück in einem Café mit Terrasse in ">> \o city_name >>,
            nachmittag |-> <<
              <<"Stadtführung oder Hop On Hop Off Tour in ">> \o city_name,
              <<"Besuch eines Parks oder einer Grünanlage in ">> \o city_name,
              <<"Radtour durch verschiedene Viertel von ">> \o city_name >>,
            abend |-> <<
              <<"Abendessen in einem typischen Restaurant in ">> \o city_name,
              <<"Spaziergang am Abend durch ">> \o city_name,
              <<"Besuch einer Rooftop Bar mit Aussicht über ">> \o city_name >>],
         schlecht |->
           [morgen |-> <<
              <<"Besuch eines Museums in ">> \o city_name,
              <<"Frühstück in einem gemütlichen Café in ">> \o city_name,
              <<"Besuch einer Markthalle in ">> \o city_name >>,
            nachmittag |-> <<
              <<"Besuch einer Galerie oder Ausstellung in ">> \o city_name,
              <<"Shopping in einer Passage oder Mall in ">> \o city_name,
              <<"Besuch eines Science Centers oder Erlebnis-Museums in ">> \o city_name >>,
            abend |-> <<
              <<"Abendessen mit lokaler Küche in ">> \o city_name,
              <<"Besuch eines Konzerts oder Theaters in ">> \o city_name,
              <<"Besuch einer Wein- oder Cocktailbar in ">> \o city_name >>],
         gemischt |->
           [morgen |-> <<
              <<"Gemütlicher Start mit Café und kurzem Stadtspaziergang in ">> \o city_name,
              <<"Besuch einer bekannten Sehenswürdigkeit in ">> \o city_name >>,
            nachmittag |-> <<
              <<"Kombination aus Museum und Spaziergang in ">> \o city_name,
              <<"Kulinarische Tour oder Street Food in ">> \o city_name >>,
            abend |-> <<
              <<"Abendessen mit regionalen Spezialitäten in ">> \o city_name,
              <<"Entspannter Abend in einer Bar oder einem Café in ">> \o city_name >>]]

(* -------------------------------------------------------- _interest_hint *)

FoodWords == <<<<"e","s","s","e","n">>,
    <<"f","o","o","d">>,
    <<"k","u","l","i","n","a","r">>,
    <<"r","e","s","t","a","u","r","a","n","t">>>>

CultureWords == <<<<"k","u","l","t","u","r">>,
    <<"m","u","s","e","u","m">>,
    <<"g","e","s","c","h","i","c","h","t","e">>>>

NatureWords == <<<<"n","a","t","u","r">>,
    <<"p","a","r","k">>,
    <<"w","a","n","d","e","r","n">>>>

NightlifeWords == <<<<"n","a","c","h","t","l","e","b","e","n">>,
    <<"b","a","r">>,
    <<"c","l","u","b">>>>

FoodClause == <<"Fokus auf Essen und lokale Spezialitäten">>
CultureClause == <<"viele kulturelle Programmpunkte und Museen">>
NatureClause == <<"Möglichkeit für Natur und Grünflächen">>
NightlifeClause == <<"Optionen für Bars und Nachtleben">>

\* Mutant: the tests are chained with elif, so one clause at most is added.
Teile_FirstOnly(lower_in) ==
    IF AnyIn(FoodWords, lower_in) THEN <<FoodClause>>
    ELSE IF AnyIn(CultureWords, lower_in) THEN <<CultureClause>>
    ELSE IF AnyIn(NatureWords, lower_in) THEN <<NatureClause>>
    ELSE IF AnyIn(NightlifeWords, lower_in) THEN <<NightlifeClause>>
    ELSE <<>>

\* The list `teile` after the four tests, each appending its clause.
Teile(lower_in) ==
    (IF AnyIn(FoodWords, lower_in) THEN <<FoodClause>> ELSE <<>>)
    \o (IF AnyIn(CultureWords, lower_in) THEN <<CultureClause>> ELSE <<>>)
    \o (IF AnyIn(NatureWords, lower_in) THEN <<NatureClause>> ELSE <<>>)
    \o (IF AnyIn(NightlifeWords, lower_in) THEN <<NightlifeClause>> ELSE <<>>)

_interest_hint(i_in) ==
    IF i_in = <<>> THEN <<>>
    ELSE LET teile == Teile(lower(i_in))
         IN  IF teile = <<>> THEN <<>>
             ELSE <<"Schwerpunkt: ">> \o Join(teile, <<", ">>) \o <<".">>

(* ------------------------------------------------------------- int(days) *)

\* A `days` argument is an int [kind |-> "int", val |-> n], a text
\* [kind |-> "str", chars |-> s], a finite float counted in tenths
\* [kind |-> "float", tenths |-> k] (k/10), a float NaN or infinity
\* [kind |-> "nan"], [kind |-> "inf"], a bool [kind |-> "bool", val |-> b],
\* or None [kind |-> "none"].
IntVal(n) == [kind |-> "int", val |-> n]
StrVal(s) == [kind |-> "str", chars |-> s]
FloatVal(k) == [kind |-> "float", tenths |-> k]
BoolVal(b) == [kind |-> "bool", val |-> b]
NoneVal == [kind |-> "none"]

Digits == <<"0","1","2","3","4","5","6","7","8","9">>
DigitSet == Range(Digits)

\* The digits of int(text) after the sign: digits, with single underscores
\* allowed between digits only.
IsIntBody(b) ==
    /\ b # <<>>
    /\ b[1] \in DigitSet
    /\ b[Len(b)] \in DigitSet
    /\ \A k \in DOMAIN b : b[k] \in DigitSet \cup {"_"}
    /\ \A k \in 1..(Len(b) - 1) : ~(b[k] = "_" /\ b[k + 1] = "_")

RECURSIVE DigitsValue(_, _)
DigitsValue(b, acc) ==
    IF b = <<>> THEN acc
    ELSE IF Head(b) = "_" THEN DigitsValue(Tail(b), acc)
    ELSE DigitsValue(Tail(b), 10 * acc + (IndexIn(Head(b), Digits) - 1))

\* int(text): surrounding whitespace stripped, an optional sign, digits.
StrToInt(chars) ==
    LET s == strip(chars)
        signed == s # <<>> /\ s[1] \in {"+", "-"}
        b == IF signed THEN Tail(s) ELSE s
    IN  IF IsIntBody(b)
        THEN [ok |-> TRUE,
              val |-> IF signed /\ s[1] = "-"
                      THEN 0 - DigitsValue(b, 0) ELSE DigitsValue(b, 0)]
        ELSE [ok |-> FALSE]

\* int(days): [ok |-> TRUE, val |-> n], or [ok |-> FALSE] where int() raises
\* (ValueError for a text that is no integer literal and for NaN,
\* OverflowError for an infinity, TypeError for None).
IntOf(d) ==
    CASE d.kind = "int" -> [ok |-> TRUE, val |-> d.val]
      [] d.kind = "bool" -> [ok |-> TRUE, val |-> IF d.val THEN 1 ELSE 0]
      [] d.kind = "float" ->
            [ok |-> TRUE,
             val |-> IF d.tenths >= 0 THEN d.tenths \div 10
                     ELSE 0 - ((0 - d.tenths) \div 10)]
      [] d.kind = "str" -> StrToInt(d.chars)
      [] OTHER -> [ok |-> FALSE]

(* -------------------------------------------------------------- plan_trip *)

MaxDays == 21

MsgCity == <<"Bitte eine Stadt angeben.">>
MsgPositive == <<"Bitte die Anzahl Tage als positive Zahl angeben.">>
MsgMax == <<"Bitte maximal 21 Tage planen, sonst wird der Plan zu lang.">>
MsgInteger == <<"Bitte 'days' als ganze Zahl angeben.">>

\* Mutant: the except branch returns the message of the lower bound.
DaysError_WrongMessage(d) ==
    LET days_int == IntOf(d)
    IN  IF ~days_int.ok THEN MsgPositive
        ELSE IF days_int.val < 1 THEN MsgPositive
        ELSE IF days_int.val > MaxDays THEN MsgMax
        ELSE <<>>

\* Mutant: the upper bound is tested with >=, so 21 days are refused.
DaysError_OffByOne(d) ==
    LET days_int == IntOf(d)
    IN  IF ~days_int.ok THEN MsgInteger
        ELSE IF days_int.val < 1 THEN MsgPositive
        ELSE IF days_int.val >= MaxDays THEN MsgMax
        ELSE <<>>

\* The try block: the message returned, or <<>> when days_int is accepted.
DaysError(d) ==
    LET days_int == IntOf(d)
    IN  IF ~days_int.ok THEN MsgInteger
        ELSE IF days_int.val < 1 THEN MsgPositive
        ELSE IF days_int.val > MaxDays THEN MsgMax
        ELSE <<>>

\* Mutant: the interests and weather lines are added for empty inputs too.
Header_AlwaysEcho(c, days_int, i, w) ==
    LET interest_text == _interest_hint(i)
        city_name == _normalize(c)
    IN  << <<"Reiseplan für ">> \o city_name
              \o <<" (", ToString(days_int), " Tage)">> >>
        \o << <<"Interessen: ">> \o strip(i) >>
        \o << <<"Ausgegangene Wetterlage: ">> \o strip(w) >>
        \o (IF interest_text # <<>> THEN <<interest_text>> ELSE <<>>)
        \o << <<>> >>

\* The header block appended to `lines` before the loop.
Header(c, days_int, i, w) ==
    LET interest_text == _interest_hint(i)
        city_name == _normalize(c)
    IN  << <<"Reiseplan für ">> \o city_name
              \o <<" (", ToString(days_int), " Tage)">> >>
        \o (IF i # <<>> THEN << <<"Interessen: ">> \o strip(i) >> ELSE <<>>)
        \o (IF w # <<>>
            THEN << <<"Ausgegangene Wetterlage: ">> \o strip(w) >> ELSE <<>>)
        \o (IF interest_text # <<>> THEN <<interest_text>> ELSE <<>>)
        \o << <<>> >>

\* pool.get(weather_class, pool["gemischt"])
Buckets(p, wc) == IF wc \in DOMAIN p THEN p[wc] ELSE p["gemischt"]

\* Mutant: the index is tag % len(bucket), one entry too far.
Pick_FromTag(bucket, tag) == bucket[(tag % Len(bucket)) + 1]

\* bucket[(tag - 1) % len(bucket)]; Python indexes from 0.
Pick(bucket, tag) == bucket[((tag - 1) % Len(bucket)) + 1]

\* The five lines one pass of the loop appends.
DayBlock(buckets, tag) ==
    << <<"Tag ", ToString(tag)>>,
       <<"  Morgen: ">> \o Pick(buckets.morgen, tag),
       <<"  Nachmittag: ">> \o Pick(buckets.nachmittag, tag),
       <<"  Abend: ">> \o Pick(buckets.abend, tag),
       <<>> >>

RECURSIVE DayLines(_, _, _)
\* for tag in range(tag, days_int + 1)
DayLines(buckets, tag, days_int) ==
    IF tag > days_int THEN <<>>
    ELSE DayBlock(buckets, tag) \o DayLines(buckets, tag + 1, days_int)

\* `lines` when plan_trip returns a plan.
PlanLines(c, days_int, i, w) ==
    Header(c, days_int, i, w)
    \o DayLines(Buckets(_build_activity_pool(c), _classify_weather(w)), 1, days_int)

plan_trip(c, d, i, w) ==
    IF c = <<>> THEN MsgCity
    ELSE IF DaysError(d) # <<>> THEN DaysError(d)
    ELSE Join(PlanLines(c, IntOf(d).val, i, w), <<"\n">>)

(* ---------------------------------------------------------------- inputs *)

RECURSIVE Concats(_, _)
\* Every concatenation of at most n fragments of F.
Concats(F, n) ==
    IF n = 0 THEN {<<>>}
    ELSE LET shorter == Concats(F, n - 1)
         IN  shorter \cup {f \o s : f \in F, s \in shorter}

TextChars == { <<"a">>, <<"D">>, <<" ">>, <<"\n">>, <<"ǰ">> }
TextInputs == Concats(TextChars, MaxTextLen)

WeatherFrags ==
    { <<"r","e","g","e","n">>, <<"S","C","H","L","E","C","H","T">>, <<"B","e","w","ö","l","k","t">>,
      <<"s","o","n","n","i","g">>, <<"W","a","r","m">>, <<"H","E","I","S","S">>,
      <<" ","a","b","e","r"," ">>, <<"r","e","g","e">>, <<"n">>,
      <<"w","i","n","d">> }

WeatherInputs == Concats(WeatherFrags, MaxWeatherFrags)

InterestFrags ==
    { <<"E","s","s","e","n">>, <<"F","O","O","D">>, <<"k","u","l","i","n","a","r","i","k">>,
      <<"R","e","s","t","a","u","r","a","n","t">>, <<"K","U","L","T","U","R">>, <<"M","u","s","e","u","m">>,
      <<"g","e","s","c","h","i","c","h","t","e">>, <<"N","a","t","u","r">>, <<"P","A","R","K">>,
      <<"w","a","n","d","e","r","n">>, <<"N","a","c","h","t","l","e","b","e","n">>, <<"b","a","r">>,
      <<"C","L","U","B">>, <<"B","a","r","-","R","e","s","t","a","u","r","a","n","t">>, <<"N","a","t","u","r"," ","u","n","d"," ","K","u","l","t","u","r">>,
      <<","," ">>, <<"s">> }

InterestInputs == Concats(InterestFrags, MaxInterestFrags)

PlanCities ==
    { <<>>, <<"m","a","d","r","i","d">>, <<" "," ","n","e","w"," ","y","o","r","k"," ">>,
      <<"a","\n","b">>, <<" ">> }

PlanInterests ==
    { <<>>, <<"E","s","s","e","n">>, <<" ","K","u","l","t","u","r",","," ","B","a","r"," ">>,
      <<"g","o","l","f">>, <<"x","\n","y">> }

PlanWeathers ==
    { <<>>, <<"s","o","n","n","i","g">>, <<" ","R","e","g","e","n"," ">>,
      <<"s","o","n","n","i","g"," ","a","b","e","r"," ","r","e","g","e","n">>, <<"w","i","n","d","\n","s","t","i","l","l">> }

IntDays == {IntVal(n) : n \in (1 - DaysSlack)..(MaxDays + DaysSlack)}

NonIntDays ==
    { StrVal(<<"a","b","c">>),
      StrVal(<<"5">>),
      StrVal(<<" ","7"," ">>),
      StrVal(<<>>),
      StrVal(<<"2",".","5">>),
      StrVal(<<"-","1">>),
      StrVal(<<"2","2">>),
      StrVal(<<"+","3">>),
      StrVal(<<"1","_","0">>),
      StrVal(<<"_","1">>),
      FloatVal(25), FloatVal(5), FloatVal(-5), FloatVal(219), FloatVal(220),
      [kind |-> "nan"], [kind |-> "inf"], BoolVal(TRUE), NoneVal }

DaysInputs == IntDays \cup NonIntDays

\* A field of the request body: left out, or given with a JSON value (a
\* text StrVal(s), a number, a bool, or null NoneVal).
Absent == [present |-> FALSE]
Given(v) == [present |-> TRUE, value |-> v]

\* The text values a request gives for city, interests and weather, and null.
RequestCities == {StrVal(<<>>), StrVal(<<"m","a","d","r","i","d">>), NoneVal}
RequestInterests == {StrVal(<<>>), StrVal(<<"b","a","r">>), NoneVal}
RequestWeathers == {StrVal(<<>>), StrVal(<<"r","e","g","e","n">>), NoneVal}

\* The texts a request gives for days beside those of DaysInputs: texts with
\* a decimal point, with leading zeros before underscores or a minus sign,
\* and texts no conversion reads.
RequestDayTexts ==
    { <<"5",".","0">>, <<"2","1",".","0">>, <<"1",".","0","0">>,
      <<"+","5",".","0">>, <<" ","5",".","0"," ">>, <<"1","_","0",".","0">>,
      <<"0",".","0">>, <<"2","2",".","0">>, <<"-","1",".","0">>,
      <<"0","_","_","1">>, <<"0","0","0","_","_","5">>, <<"-","0","_","_","1">>,
      <<"0","-","1">>, <<"0","_","-","1">>, <<"0","-","0">>,
      <<"0","-","0","1">>, <<"-","0","-","1">>, <<"+","-","5">>,
      <<"5",".">>, <<"0","_">>, <<"1","_","_","0">>, <<"_","1">> }

\* The values a request gives for days: every value of DaysInputs, the
\* floats 5.0, 21.0 and 22.0, and the texts of RequestDayTexts.
RequestDays ==
    DaysInputs
        \cup {FloatVal(50), FloatVal(210), FloatVal(220)}
        \cup {StrVal(s) : s \in RequestDayTexts}

Requests ==
    [ city : {Absent} \cup {Given(c) : c \in RequestCities},
      days : {Absent} \cup {Given(d) : d \in RequestDays},
      interests : {Absent} \cup {Given(i) : i \in RequestInterests},
      weather : {Absent} \cup {Given(w) : w \in RequestWeathers} ]

(* ------------------------------------------------------------ TripRequest *)

DefaultInterests == <<"E","s","s","e","n",","," ","K","u","l","t","u","r">>
DefaultWeather == <<"s","o","n","n","i","g">>

\* A str field when given: the value must be a str (null is refused).
StrValid(f) == f.present => f.value.kind = "str"

\* city: str = Field(...): required, any str, the empty one too.
CityValid(f) == f.present /\ StrValid(f)

\* A text of decimal digits with an optional sign, leading zeros allowed.
IsPlainInt(s) ==
    LET b == IF s # <<>> /\ s[1] \in {"+", "-"} THEN Tail(s) ELSE s
    IN  b # <<>> /\ \A k \in DOMAIN b : b[k] \in DigitSet

\* A text of decimal digits with an optional minus sign and no leading zero
\* (a single "0" excepted).
IsCanonicalInt(s) ==
    LET b == IF s # <<>> /\ s[1] = "-" THEN Tail(s) ELSE s
    IN  /\ b # <<>>
        /\ \A k \in DOMAIN b : b[k] \in DigitSet
        /\ (b[1] = "0" => Len(b) = 1)

\* The value of a signed text of digits.
SignedValue(s) ==
    IF s[1] = "-" THEN 0 - DigitsValue(Tail(s), 0)
    ELSE IF s[1] = "+" THEN DigitsValue(Tail(s), 0)
    ELSE DigitsValue(s, 0)

\* The text after its leading zeros: a text that starts with a digit 1-9 is
\* kept; after a first "0", zeros and underscores are skipped up to a digit
\* 1-9 or a minus sign, or up to the character before a decimal point; a
\* text of zeros and underscores only leaves its last character; any other
\* text is refused.
StripLeadingZeros(s) ==
    IF s = <<>> THEN [ok |-> FALSE]
    ELSE IF s[1] \in DigitSet \ {"0"} THEN [ok |-> TRUE, rest |-> s]
    ELSE IF s[1] # "0" THEN [ok |-> FALSE]
    ELSE LET stops == {k \in 2..Len(s) : s[k] \notin {"0", "_"}}
         IN  IF stops = {} THEN [ok |-> TRUE, rest |-> <<s[Len(s)]>>]
             ELSE LET i == CHOOSE k \in stops : \A j \in stops : k <= j
                  IN  IF s[i] \in (DigitSet \ {"0"}) \cup {"-"}
                      THEN [ok |-> TRUE, rest |-> SubSeq(s, i, Len(s))]
                      ELSE IF s[i] = "."
                      THEN [ok |-> TRUE, rest |-> SubSeq(s, i - 1, Len(s))]
                      ELSE [ok |-> FALSE]

\* The text before its decimal point, when the point is followed by zeros
\* only and by at least one; a text without a point is kept.
StripDecimalZeros(s) ==
    LET dots == {k \in DOMAIN s : s[k] = "."}
    IN  IF dots = {} THEN [ok |-> TRUE, rest |-> s]
        ELSE LET i == CHOOSE k \in dots : \A j \in dots : k <= j
             IN  IF i < Len(s) /\ \A k \in (i + 1)..Len(s) : s[k] = "0"
                 THEN [ok |-> TRUE, rest |-> SubSeq(s, 1, i - 1)]
                 ELSE [ok |-> FALSE]

\* Whether the underscores of a text can be dropped: there is one, none at
\* either end, and no two in a row.
HasDroppableUnderscores(s) ==
    /\ s # <<>>
    /\ s[1] # "_"
    /\ s[Len(s)] # "_"
    /\ \E k \in DOMAIN s : s[k] = "_"
    /\ \A k \in 1..(Len(s) - 1) : ~(s[k] = "_" /\ s[k + 1] = "_")

DropUnderscores(s) == SelectSeq(s, LAMBDA c : c # "_")

\* The conversion of a text to int that validation of `days: int` applies.
\* Surrounding whitespace is stripped. A signed text of digits is read as it
\* is. Otherwise the sign is set aside, leading zeros and a decimal point
\* followed by zeros are stripped, underscores between characters are
\* dropped, and what is left, the minus sign put back, must be a canonical
\* integer; a text these steps leave unchanged is refused.
LaxStrToInt(chars) ==
    LET s == strip(chars)
        signed == s # <<>> /\ s[1] \in {"+", "-"}
        sign == IF s # <<>> /\ s[1] = "-" THEN <<"-">> ELSE <<>>
        t == IF signed THEN Tail(s) ELSE s
        z == StripLeadingZeros(t)
        d == IF z.ok THEN StripDecimalZeros(z.rest) ELSE [ok |-> FALSE]
        u == IF ~d.ok THEN [ok |-> FALSE]
             ELSE IF HasDroppableUnderscores(d.rest)
             THEN [ok |-> TRUE, rest |-> DropUnderscores(d.rest)]
             ELSE IF Len(d.rest) = Len(t) THEN [ok |-> FALSE]
             ELSE d
    IN  IF IsPlainInt(s) THEN [ok |-> TRUE, val |-> SignedValue(s)]
        ELSE IF u.ok /\ IsCanonicalInt(sign \o u.rest)
        THEN [ok |-> TRUE, val |-> SignedValue(sign \o u.rest)]
        ELSE [ok |-> FALSE]

\* The conversion of a value to int that validation of `days: int` applies:
\* an int as it is, a bool as 0 or 1, a float without fractional part, a
\* text as LaxStrToInt reads it; anything else is refused.
LaxInt(v) ==
    CASE v.kind = "int" -> [ok |-> TRUE, val |-> v.val]
      [] v.kind = "bool" -> [ok |-> TRUE, val |-> IF v.val THEN 1 ELSE 0]
      [] v.kind = "float" ->
            IF v.tenths % 10 = 0
            THEN [ok |-> TRUE,
                  val |-> IF v.tenths >= 0 THEN v.tenths \div 10
                          ELSE 0 - ((0 - v.tenths) \div 10)]
            ELSE [ok |-> FALSE]
      [] v.kind = "str" -> LaxStrToInt(v.chars)
      [] OTHER -> [ok |-> FALSE]

\* days: int = Field(..., ge=1, le=21): required, converted to an int, which
\* must lie in [1, 21].
DaysValid(f) ==
    /\ f.present
    /\ LaxInt(f.value).ok
    /\ LaxInt(f.value).val >= 1
    /\ LaxInt(f.value).val <= MaxDays

\* Whether the body validates as a TripRequest.
RequestValid(r) ==
    /\ CityValid(r.city)
    /\ DaysValid(r.days)
    /\ StrValid(r.interests)
    /\ StrValid(r.weather)

\* A days of NaN or an infinity is refused, and the error answer, which
\* repeats the value, cannot be written as JSON: the answer is 500.
ErrorUnserialisable(r) == r.days.present /\ r.days.value.kind \in {"nan", "inf"}

\* An optional str field: its text, or the default of the schema.
FieldOr(f, default) == IF f.present THEN f.value.chars ELSE default

(* --------------------------------------------------------------- actions *)

NoRequest == [city |-> Absent, days |-> Absent, interests |-> Absent, weather |-> Absent]

Init ==
    /\ fn = "idle"
    /\ req = NoRequest
    /\ city = <<>>
    /\ days = NoneVal
    /\ interests = <<>>
    /\ weather = <<>>
    /\ text = <<>>
    /\ weather_class = ""
    /\ pool = <<>>
    /\ lines = <<>>
    /\ result = <<>>
    /\ http = 0
    /\ response = [none |-> TRUE]

\* _normalize(t)
CallNormalize ==
    /\ fn = "idle"
    /\ \E t \in TextInputs :
          /\ text' = t
          /\ result' = _normalize(t)
    /\ fn' = "_normalize"
    /\ UNCHANGED <<req, city, days, interests, weather, weather_class, pool,
                   lines, http, response>>

\* _classify_weather(w)
CallClassifyWeather ==
    /\ fn = "idle"
    /\ \E w \in WeatherInputs :
          /\ weather' = w
          /\ weather_class' = _classify_weather(w)
    /\ fn' = "_classify_weather"
    /\ UNCHANGED <<req, city, days, interests, text, pool, lines, result,
                   http, response>>

\* _interest_hint(i)
CallInterestHint ==
    /\ fn = "idle"
    /\ \E i \in InterestInputs :
          /\ interests' = i
          /\ result' = _interest_hint(i)
    /\ fn' = "_interest_hint"
    /\ UNCHANGED <<req, city, days, weather, text, weather_class, pool, lines,
                   http, response>>

\* _build_activity_pool(c)
CallBuildActivityPool ==
    /\ fn = "idle"
    /\ \E c \in TextInputs :
          /\ city' = c
          /\ pool' = _build_activity_pool(c)
    /\ fn' = "_build_activity_pool"
    /\ UNCHANGED <<req, days, interests, weather, text, weather_class, lines,
                   result, http, response>>

\* The state plan_trip(c, d, i, w) leaves: its locals at the return, and
\* the str returned.
RunPlanTrip(c, d, i, w) ==
    /\ city' = c
    /\ days' = d
    /\ interests' = i
    /\ weather' = w
    /\ result' = plan_trip(c, d, i, w)
    /\ IF c # <<>> /\ DaysError(d) = <<>>
       THEN /\ weather_class' = _classify_weather(w)
            /\ pool' = _build_activity_pool(c)
            /\ lines' = PlanLines(c, IntOf(d).val, i, w)
       ELSE UNCHANGED <<weather_class, pool, lines>>

\* plan_trip called directly.
CallPlanTrip ==
    /\ fn = "idle"
    /\ \E c \in PlanCities, d \in DaysInputs, i \in PlanInterests, w \in PlanWeathers :
          RunPlanTrip(c, d, i, w)
    /\ fn' = "plan_trip"
    /\ UNCHANGED <<req, text, http, response>>

\* POST /plan_trip: the body is validated as a TripRequest and days is
\* converted to an int; a body that does not validate is answered 422 (500
\* when the error cannot be written) and plan_trip_endpoint does not run.
PostPlanTrip ==
    /\ fn = "idle"
    /\ \E r \in Requests :
          /\ req' = r
          /\ IF RequestValid(r)
             THEN /\ RunPlanTrip(r.city.value.chars,
                                 IntVal(LaxInt(r.days.value).val),
                                 FieldOr(r.interests, DefaultInterests),
                                 FieldOr(r.weather, DefaultWeather))
                  /\ http' = 200
                  /\ response' = [plan |-> result']
             ELSE /\ http' = IF ErrorUnserialisable(r) THEN 500 ELSE 422
                  /\ response' = IF ErrorUnserialisable(r)
                                 THEN [detail |-> "internal server error"]
                                 ELSE [detail |-> "validation error"]
                  /\ UNCHANGED <<city, days, interests, weather, weather_class,
                                 pool, lines, result>>
    /\ fn' = "plan_trip_endpoint"
    /\ UNCHANGED text

\* GET /health
GetHealth ==
    /\ fn = "idle"
    /\ fn' = "health"
    /\ http' = 200
    /\ response' = [status |-> "ok"]
    /\ UNCHANGED <<req, city, days, interests, weather, text, weather_class,
                   pool, lines, result>>

\* The operation has returned; nothing is kept between operations.
Return ==
    /\ fn # "idle"
    /\ fn' = "idle"
    /\ req' = NoRequest
    /\ city' = <<>>
    /\ days' = NoneVal
    /\ interests' = <<>>
    /\ weather' = <<>>
    /\ text' = <<>>
    /\ weather_class' = ""
    /\ pool' = <<>>
    /\ lines' = <<>>
    /\ result' = <<>>
    /\ http' = 0
    /\ response' = [none |-> TRUE]

Next ==
    \/ CallNormalize
    \/ CallClassifyWeather
    \/ CallInterestHint
    \/ CallBuildActivityPool
    \/ CallPlanTrip
    \/ PostPlanTrip
    \/ GetHealth
    \/ Return

Spec == Init /\ [][Next]_vars

(* ------------------------------------------------- vocabulary of claims *)

\* The operation returned a plan (not one of the messages).
PlanProduced ==
    /\ fn \in {"plan_trip", "plan_trip_endpoint"}
    /\ result # <<>>
    /\ result[1] = "Reiseplan für "

\* plan_trip was called directly with a non-empty city.
DirectCall == fn = "plan_trip" /\ city # <<>>

RECURSIVE SplitLines(_)
\* The lines of a text: the text split at every line break, half by half.
SplitLines(t) ==
    IF t = <<>> THEN << <<>> >>
    ELSE IF Len(t) = 1 THEN (IF t[1] = "\n" THEN << <<>>, <<>> >> ELSE <<t>>)
    ELSE LET half == Len(t) \div 2
             l == SplitLines(SubSeq(t, 1, half))
             r == SplitLines(SubSeq(t, half + 1, Len(t)))
         IN  SubSeq(l, 1, Len(l) - 1) \o << l[Len(l)] \o r[1] >> \o Tail(r)

\* The line starts with the given literal.
StartsWith(line, literal) == line # <<>> /\ line[1] = literal

DayLabels == {"Tag ", "  Morgen: ", "  Nachmittag: ", "  Abend: "}

\* The lines L end in exactly d day-blocks, numbered 1..d in order, each a
\* 'Tag k' line, a Morgen, a Nachmittag and an Abend line and a blank line,
\* and no line before them is a line of a day-block.
DayBlocks(L, d) ==
    LET h == Len(L) - 5 * d
    IN  /\ h >= 0
        /\ \A k \in 1..d :
              LET at == h + 5 * (k - 1)
              IN  /\ L[at + 1] = <<"Tag ", ToString(k)>>
                  /\ StartsWith(L[at + 2], "  Morgen: ")
                  /\ StartsWith(L[at + 3], "  Nachmittag: ")
                  /\ StartsWith(L[at + 4], "  Abend: ")
                  /\ L[at + 5] = <<>>
        /\ \A j \in 1..h : L[j] = <<>> \/ L[j][1] \notin DayLabels

\* The character c and the lowercase letter l are the same letter, case
\* apart.
SameLetter(c, l) ==
    \/ c = l
    \/ \E k \in DOMAIN Uppers : c = Uppers[k] /\ l = Lowers[k]

\* The keyword occurs in the text as a substring, case apart.
Occurs(wort, t) ==
    \E i \in 0..(Len(t) - Len(wort)) :
        \A j \in 1..Len(wort) : SameLetter(t[i + j], wort[j])

\* At least one of the keywords occurs in the text, case apart.
AnyOccurs(worte, t) == \E k \in DOMAIN worte : Occurs(worte[k], t)

(* ------------------------------------------------------------------- C1 *)

\* C1: for every integer days in [1, 21] and every non-empty city, with any
\* interests and weather, the text plan_trip returns, read line by line,
\* ends in exactly `days` day-blocks numbered 'Tag 1' .. 'Tag <days>', each
\* one Morgen, one Nachmittag and one Abend line in that order followed by
\* a blank line.
C1_DayBlocks ==
    (DirectCall /\ days.kind = "int" /\ days.val \in 1..MaxDays)
        => DayBlocks(SplitLines(result), days.val)

\* C1 holds of every call whose city, interests and weather contain no line
\* break: the violation of C1 needs one.
NoLineBreak(t) == \A k \in DOMAIN t : t[k] # "\n"

C1_SingleLineInputs ==
    (DirectCall /\ days.kind = "int" /\ days.val \in 1..MaxDays
        /\ NoLineBreak(city) /\ NoLineBreak(interests) /\ NoLineBreak(weather))
        => DayBlocks(SplitLines(result), days.val)

(* ------------------------------------------------------------------- C2 *)

\* The activity line of day k for one time of day, as the rule of C2 gives
\* it: the label, then entry (k - 1) mod n of the bucket (counted from 0).
CyclicLine(label, bucket, k) ==
    <<label>> \o bucket[((k - 1) % Len(bucket)) + 1]

\* C2: in a plan, the activity shown for day k and each time of day is the
\* entry at index (k - 1) mod n of the bucket of the classified weather
\* class, n the size of the bucket; so day k and day k + n show the same
\* activity whenever both are in the plan.
C2_CyclicSelection ==
    PlanProduced =>
        LET d == IntOf(days).val
            h == Len(lines) - 5 * d
            b == _build_activity_pool(city)[_classify_weather(weather)]
            row(k, t) == lines[h + 5 * (k - 1) + t]
        IN  /\ result = Join(lines, <<"\n">>)
            /\ h >= 2
            /\ \A k \in 1..d :
                  /\ row(k, 2) = CyclicLine("  Morgen: ", b.morgen, k)
                  /\ row(k, 3) = CyclicLine("  Nachmittag: ", b.nachmittag, k)
                  /\ row(k, 4) = CyclicLine("  Abend: ", b.abend, k)
                  /\ (k + Len(b.morgen) <= d
                         => row(k, 2) = row(k + Len(b.morgen), 2))
                  /\ (k + Len(b.nachmittag) <= d
                         => row(k, 3) = row(k + Len(b.nachmittag), 3))
                  /\ (k + Len(b.abend) <= d
                         => row(k, 4) = row(k + Len(b.abend), 4))

\* A plan of more days than a bucket has entries, so the selection wraps.
C2_Witness ==
    /\ PlanProduced
    /\ weather_class = "gut"
    /\ IntOf(days).val = 5
    /\ lines[Len(lines) - 3] = lines[Len(lines) - 18]

(* ------------------------------------------------------------------- C3 *)

\* C3: a weather text in which a bad keyword (regen, schlecht, bewölkt)
\* occurs, case apart, classifies as "schlecht" even when a good keyword
\* (sonnig, warm, heiss) occurs too; one with a good keyword and no bad
\* keyword as "gut"; one with neither as "gemischt".
C3_BadBeforeGood ==
    fn = "_classify_weather" =>
        weather_class =
            IF AnyOccurs(BadWeatherWords, weather) THEN "schlecht"
            ELSE IF AnyOccurs(GoodWeatherWords, weather) THEN "gut"
            ELSE "gemischt"

\* A text with a good keyword before a bad one, classified bad.
C3_Witness ==
    /\ fn = "_classify_weather"
    /\ weather = <<"s","o","n","n","i","g"," ","a","b","e","r"," ","r","e","g","e","n">>
    /\ weather_class = "schlecht"

(* ------------------------------------------------------------------- C4 *)

\* The title line of the plan.
TitleLine(c, d) ==
    <<"Reiseplan für ">> \o _normalize(c) \o <<" (", ToString(d), " Tage)">>

\* C4: with weather and interests both empty, the header is the title line
\* followed directly by the blank separator (no 'Interessen:', no
\* 'Ausgegangene Wetterlage:' and no 'Schwerpunkt:' line), the weather is
\* classified "gemischt", and every day's activities are entries of the
\* "gemischt" pool.
C4_EmptyInputs ==
    (PlanProduced /\ weather = <<>> /\ interests = <<>>) =>
        LET d == IntOf(days).val
            mixed == _build_activity_pool(city).gemischt
            first == TitleLine(city, d)
        IN  /\ weather_class = "gemischt"
            /\ Len(lines) = 2 + 5 * d
            /\ lines[1] = first
            /\ lines[2] = <<>>
            /\ lines[3] = <<"Tag ", "1">>
            /\ SubSeq(result, 1, Len(first) + 4) = first \o <<"\n", "\n", "Tag ", "1">>
            /\ \A k \in 1..d :
                  /\ \E a \in Range(mixed.morgen) :
                        lines[5 * k - 1] = <<"  Morgen: ">> \o a
                  /\ \E a \in Range(mixed.nachmittag) :
                        lines[5 * k] = <<"  Nachmittag: ">> \o a
                  /\ \E a \in Range(mixed.abend) :
                        lines[5 * k + 1] = <<"  Abend: ">> \o a

\* A plan for Madrid with empty interests and weather.
C4_Witness ==
    /\ PlanProduced
    /\ weather = <<>>
    /\ interests = <<>>
    /\ city = <<"m","a","d","r","i","d">>
    /\ IntOf(days).val = 3
    /\ Len(lines) = 17

(* ------------------------------------------------------------------- C5 *)

InCoreMessages == {MsgCity, MsgPositive, MsgMax, MsgInteger}

\* The request names no city or an empty one, or its days is missing, does
\* not denote an integer or denotes one outside [1, 21].
BadRequest(r) ==
    \/ ~r.city.present
    \/ r.city.value.kind # "str"
    \/ r.city.value.chars = <<>>
    \/ ~r.days.present
    \/ ~LaxInt(r.days.value).ok
    \/ LaxInt(r.days.value).val < 1
    \/ LaxInt(r.days.value).val > MaxDays

\* C5: POST /plan_trip rejects at schema validation every request whose
\* city is empty or absent or whose days is malformed or outside [1, 21]; so
\* plan_trip never runs with an empty city or an out-of-range days, and the
\* 'plan' of a success response is never one of the 'Bitte ...' messages.
C5_SchemaRejects ==
    fn = "plan_trip_endpoint" =>
        /\ (BadRequest(req) => http \in {422, 500})
        /\ (http = 200 => /\ city # <<>>
                          /\ result \notin InCoreMessages
                          /\ response.plan \notin InCoreMessages)

\* The part of C5 about days holds: a request whose days is missing, does
\* not denote an integer or denotes one outside [1, 21] is rejected, and
\* plan_trip runs with an int in [1, 21] only.
C5_DaysRejected ==
    fn = "plan_trip_endpoint" =>
        /\ (http = 200 => /\ req.days.present
                          /\ days.kind = "int"
                          /\ days.val \in 1..MaxDays
                          /\ days.val = LaxInt(req.days.value).val
                          /\ result \notin {MsgPositive, MsgMax, MsgInteger})
        /\ ((~req.days.present \/ ~DaysValid(req.days)) => http \in {422, 500})

(* ------------------------------------------------------------------- C6 *)

\* The text returned is a message: no header and no day-blocks.
NoPlan ==
    /\ lines = <<>>
    /\ \A k \in DOMAIN result :
          result[k] \notin DayLabels \cup {"Reiseplan für ", "\n"}

\* C6 as stated: called directly with a non-empty city and a days value
\* that is not an integer, plan_trip returns exactly the message "Bitte
\* 'days' als ganze Zahl angeben." and no header and no day-blocks.
C6_NotAnInteger ==
    (DirectCall /\ days.kind \notin {"int", "bool"})
        => (result = MsgInteger /\ NoPlan)

\* A text that int() reads as an integer: surrounding whitespace, an
\* optional sign, then digits (single underscores between digits allowed).
IsIntegerLiteral(s) ==
    \E sign \in {<<>>, <<"+">>, <<"-">>} :
        /\ Len(strip(s)) >= Len(sign)
        /\ SubSeq(strip(s), 1, Len(sign)) = sign
        /\ IsIntBody(SubSeq(strip(s), Len(sign) + 1, Len(strip(s))))

\* A days value int() cannot convert: a text that is no integer literal,
\* None, NaN or an infinity.
NotConvertible(d) ==
    \/ d.kind \in {"none", "nan", "inf"}
    \/ d.kind = "str" /\ ~IsIntegerLiteral(d.chars)

\* C6, amended: called directly with a non-empty city and a days value
\* that int() cannot convert, plan_trip returns exactly the message "Bitte
\* 'days' als ganze Zahl angeben." and no header and no day-blocks; a days
\* value int() converts (a numeric text, a finite float, truncated) is
\* handled as that integer.
C6_NotConvertible ==
    DirectCall =>
        /\ (NotConvertible(days) => (result = MsgInteger /\ NoPlan))
        /\ (~NotConvertible(days) => result # MsgInteger)

\* plan_trip called with days = "abc".
C6_Witness ==
    /\ DirectCall
    /\ days = StrVal(<<"a","b","c">>)
    /\ result = MsgInteger

(* ------------------------------------------------------------------- C7 *)

\* C7: called directly with a non-empty city, every integer days < 1
\* returns exactly "Bitte die Anzahl Tage als positive Zahl angeben.", every
\* integer days > 21 returns exactly "Bitte maximal 21 Tage planen, sonst
\* wird der Plan zu lang.", both with no day-blocks, and days = 1 and
\* days = 21 are accepted and produce a plan.
C7_DaysBounds ==
    (DirectCall /\ days.kind = "int") =>
        /\ (days.val < 1 => (result = MsgPositive /\ NoPlan))
        /\ (days.val > 21 => (result = MsgMax /\ NoPlan))
        /\ (days.val \in {1, 21} =>
               /\ PlanProduced
               /\ Len(lines) >= 2 + 5 * days.val
               /\ lines[Len(lines) - 4] = <<"Tag ", ToString(days.val)>>)

\* plan_trip called with 22 days.
C7_Witness ==
    /\ DirectCall
    /\ days = IntVal(22)
    /\ result = MsgMax

(* ------------------------------------------------------------------- C8 *)

\* The clauses of the categories of which a keyword occurs in the text, in
\* the order food, culture, nature, nightlife.
ExpectedClauses(t) ==
    (IF AnyOccurs(FoodWords, t) THEN <<FoodClause>> ELSE <<>>)
    \o (IF AnyOccurs(CultureWords, t) THEN <<CultureClause>> ELSE <<>>)
    \o (IF AnyOccurs(NatureWords, t) THEN <<NatureClause>> ELSE <<>>)
    \o (IF AnyOccurs(NightlifeWords, t) THEN <<NightlifeClause>> ELSE <<>>)

\* C8: _interest_hint returns the empty string when interests is empty or
\* matches no category; otherwise 'Schwerpunkt: ' + clauses + '.', each
\* category contributing its clause once if and only if one of its keywords
\* occurs, case apart, in interests, the clauses joined by ', ' in the order
\* food, culture, nature, nightlife whatever the order in the input.
C8_InterestHint ==
    fn = "_interest_hint" =>
        LET cl == ExpectedClauses(interests)
        IN  IF interests = <<>> \/ cl = <<>> THEN result = <<>>
            ELSE /\ result[1] = "Schwerpunkt: "
                 /\ result[Len(result)] = "."
                 /\ Len(result) = 2 * Len(cl) + 1
                 /\ \A k \in DOMAIN cl : result[2 * k] = cl[k][1]
                 /\ \A k \in 1..(Len(cl) - 1) : result[2 * k + 1] = ", "

\* Interests naming nature before culture: the hint names culture first.
C8_Witness ==
    /\ fn = "_interest_hint"
    /\ interests = <<"N","a","t","u","r"," ","u","n","d"," ","K","u","l","t","u","r">>
    /\ result = <<"Schwerpunkt: ", "viele kulturelle Programmpunkte und Museen",
                  ", ", "Möglichkeit für Natur und Grünflächen", ".">>

(* ------------------------------------------------------------------- C9 *)

\* C9: _normalize is idempotent: _normalize(_normalize(t)) = _normalize(t)
\* for every text t.
C9_Idempotent == fn = "_normalize" => _normalize(result) = result

\* The example of C9 holds: "  madrid  " is normalized to "Madrid", which
\* is normalized to itself; and so does idempotence for every text without
\* a character whose titlecase is more than one character.
C9_PlainLetters ==
    /\ _normalize(<<" "," ","m","a","d","r","i","d"," "," ">>) = <<"M","a","d","r","i","d">>
    /\ _normalize(<<"M","a","d","r","i","d">>) = <<"M","a","d","r","i","d">>
    /\ (fn = "_normalize" /\ \A k \in DOMAIN text : text[k] # "ǰ")
           => _normalize(result) = result

(* ------------------------------------------------------------------ C10 *)

WeatherClasses == {"gut", "schlecht", "gemischt"}
TimesOfDay == {"morgen", "nachmittag", "abend"}

\* The pool defines the three classes, each with the three times of day,
\* with 3 entries for gut and schlecht and 2 for gemischt.
PoolComplete(p) ==
    /\ DOMAIN p = WeatherClasses
    /\ \A wc \in WeatherClasses :
          /\ DOMAIN p[wc] = TimesOfDay
          /\ \A t \in TimesOfDay :
                Len(p[wc][t]) = (IF wc = "gemischt" THEN 2 ELSE 3)

\* C10: for every city the pool defines all three weather classes, each
\* with all three time-of-day buckets, every bucket non-empty (3 entries for
\* good and bad, 2 for mixed), and the class of every weather text is one of
\* the three; so plan_trip never falls back to the mixed bucket for a
\* missing class and never divides by a bucket size of zero.
C10_PoolComplete ==
    /\ fn = "_build_activity_pool" => PoolComplete(pool)
    /\ fn = "_classify_weather" => weather_class \in WeatherClasses
    /\ PlanProduced =>
          /\ PoolComplete(pool)
          /\ weather_class \in DOMAIN pool
          /\ Buckets(pool, weather_class) = pool[weather_class]
          /\ \A t \in TimesOfDay : Len(pool[weather_class][t]) > 0

\* A plan for a weather text without any keyword.
C10_Witness ==
    /\ PlanProduced
    /\ weather = <<"w","i","n","d","\n","s","t","i","l","l">>
    /\ weather_class = "gemischt"
    /\ PoolComplete(pool)

====
